---- MODULE Spec2Model ----
(***************************************************************************)
(* SoLoud BiquadResonantFilterInstance                                     *)
(* (src/demos/piano/soloud_biquadresonantfilter.cpp).                      *)
(*                                                                         *)
(* Numbers.  The C++ floats are modelled in fixed point: a coefficient, a  *)
(* sample, an angle or a sine is an integer count of 1/One.  The three     *)
(* parameters (frequency, sample rate, resonance) and the times are whole  *)
(* numbers of Hz, of Q and of seconds.  Every float operation of the       *)
(* source becomes the same operation on these integers, rounded after each *)
(* product or quotient as the float unit rounds after each operation.      *)
(***************************************************************************)
EXTENDS Integers, Sequences

(* ------------------------------------------------------------------ *)
(* Fixed-point arithmetic                                              *)
(* ------------------------------------------------------------------ *)

\* 1.0f in the model's fixed point.
One == 1000

\* M_PI in the model's fixed point.
PiFx == 3142

Mul(a, b) == (a * b) \div One

Div(a, b) == (a * One) \div b

\* The angle w brought into (-PiFx, PiFx].
Wrap(w) ==
    LET r == w % (2 * PiFx)
    IN  IF r > PiFx THEN r - 2 * PiFx ELSE r

\* sin of an angle in [-PiFx/2, PiFx/2]: the series to the seventh power.
SinSeries(x) ==
    LET x2 == Mul(x, x)
        x3 == Mul(x2, x)
        x5 == Mul(x3, x2)
        x7 == Mul(x5, x2)
    IN  x - (x3 \div 6) + (x5 \div 120) - (x7 \div 5040)

\* cos of an angle in [-PiFx/2, PiFx/2]: the series to the eighth power.
CosSeries(x) ==
    LET x2 == Mul(x, x)
        x4 == Mul(x2, x2)
        x6 == Mul(x4, x2)
        x8 == Mul(x4, x4)
    IN  One - (x2 \div 2) + (x4 \div 24) - (x6 \div 720) + (x8 \div 40320)

\* sin(omega) of <math.h>.
Sin(omega) ==
    LET w == Wrap(omega)
    IN  IF 2 * w > PiFx THEN SinSeries(PiFx - w)
        ELSE IF 2 * w < -PiFx THEN SinSeries(-PiFx - w)
        ELSE SinSeries(w)

\* cos(omega) of <math.h>.
Cos(omega) ==
    LET w == Wrap(omega)
    IN  IF 2 * w > PiFx THEN -CosSeries(PiFx - w)
        ELSE IF 2 * w < -PiFx THEN -CosSeries(-PiFx - w)
        ELSE CosSeries(w)

(* ------------------------------------------------------------------ *)
(* Enumerations and input sets                                         *)
(* ------------------------------------------------------------------ *)

\* BiquadResonantFilter::FILTERTYPE
FilterTypes == {"NONE", "LOWPASS", "HIGHPASS", "BANDPASS"}

\* BiquadResonantFilter::FILTERATTRIBUTE
FREQUENCY == 0
SAMPLERATE == 1
RESONANCE == 2

Attributes == {FREQUENCY, SAMPLERATE, RESONANCE}

\* aAttributeId as the callers pass it: the three attributes and one id that
\* is none of them.
AttributeIds == Attributes \cup {RESONANCE + 1}

\* Parameter values the callers pass, per attribute (Hz, Hz, Q).  Sample rate
\* and resonance are positive, as the callers guarantee.
ParamValues(a) ==
    IF a = FREQUENCY THEN {1000, 2000}
    ELSE IF a = SAMPLERATE THEN {8000, 16000}
    ELSE {1, 3}

\* What the never-assigned mFrequency of a new instance may hold.
Indeterminate == {0, 5000}

\* What the never-assigned coefficients of a new NONE instance may hold.
IndeterminateCoefs == {<<0, 0, 0, 0, 0>>, <<One, 0, 0, 0, 0>>}

\* Durations (seconds) passed to fade and oscillate requests.
Durations == {0, 2}

\* Latest time of the caller's clock, in seconds.
MaxTime == 3

\* Steps of the clock between two filter() calls.
Steps == {1, 2}

\* Number of parameter requests (set, fade, oscillate) in one run.
MaxRequests == 2

Min(a, b) == IF a < b THEN a ELSE b
Max(a, b) == IF a < b THEN b ELSE a

(* ------------------------------------------------------------------ *)
(* Fader (one per parameter)                                           *)
(* ------------------------------------------------------------------ *)

\* A default-constructed Fader.
NewFader == [mActive |-> 0, mFrom |-> 0, mTo |-> 0, mTime |-> 0, mStartTime |-> 0]

\* Fader::set: a one-shot ramp.
FaderSet(aFrom, aTo, aTime, aStartTime) ==
    [mActive |-> 1, mFrom |-> aFrom, mTo |-> aTo, mTime |-> aTime,
     mStartTime |-> aStartTime]

\* Fader::setLFO: a repeating oscillation.
FaderSetLFO(aFrom, aTo, aTime, aStartTime) ==
    [mActive |-> 2, mFrom |-> aFrom, mTo |-> aTo, mTime |-> aTime,
     mStartTime |-> aStartTime]

\* The oscillation at phase p of its period mTime: from mFrom up to mTo over
\* the first half period and back over the second.
LFOValue(fd, p) ==
    LET d == fd.mTo - fd.mFrom
    IN  IF 2 * p <= fd.mTime
        THEN fd.mFrom + ((d * 2 * p) \div fd.mTime)
        ELSE fd.mFrom + ((d * 2 * (fd.mTime - p)) \div fd.mTime)

\* The ramp at time t, clamped to its two ends.
RampValue(fd, t) ==
    IF t >= fd.mStartTime + fd.mTime THEN fd.mTo
    ELSE IF t <= fd.mStartTime THEN fd.mFrom
    ELSE fd.mFrom + (((fd.mTo - fd.mFrom) * (t - fd.mStartTime)) \div fd.mTime)

\* Fader::get, the value returned.
FaderGetValue(fd, aCurrentTime) ==
    IF fd.mActive = 2
    THEN LFOValue(fd, (aCurrentTime - fd.mStartTime) % fd.mTime)
    ELSE RampValue(fd, aCurrentTime)

\* Fader::get, the fader it leaves: a ramp that has reached its end turns
\* itself off, an oscillation never does.
FaderGetState(fd, aCurrentTime) ==
    IF fd.mActive = 1 /\ aCurrentTime >= fd.mStartTime + fd.mTime
    THEN [fd EXCEPT !.mActive = 0]
    ELSE fd

(* ------------------------------------------------------------------ *)
(* BiquadResonantFilterInstance                                        *)
(* ------------------------------------------------------------------ *)

VARIABLES
    mFilterType, mSampleRate, mFrequency, mResonance,   \* parameters
    mActive, mDirty,
    mA0, mA1, mA2, mB1, mB2,                            \* coefficients
    mX1, mX2, mY1, mY2,                                 \* history, per channel
    mFrequencyFader, mSampleRateFader, mResonanceFader,
    aBuffer,      \* the caller's sample memory, indexed from 0
    calcRan,      \* whether the last filter() call ran calcBQRParams
    pc,           \* where the running filter() call stands ("idle": none runs)
    frame,        \* the arguments and locals of the running filter() call
    setter,       \* a setFilterParameter call running beside filter()
    log,          \* the sample memory indices the running filter() call has used
    now,          \* the caller's clock
    call,         \* the last call made on the instance, with its arguments
    pending,      \* per attribute: the value of a set request no filter() has yet seen
    ramping,      \* the attribute of the last request if that was a fade that took hold
    requests      \* parameter requests made so far

params == <<mFilterType, mSampleRate, mFrequency, mResonance>>
coefs == <<mA0, mA1, mA2, mB1, mB2>>
history == <<mX1, mX2, mY1, mY2>>
faders == <<mFrequencyFader, mSampleRateFader, mResonanceFader>>
instance == <<params, mActive, mDirty, coefs, history, faders>>
observers == <<now, call, pending, ramping, requests>>
stepping == <<pc, frame, setter, log>>
vars == <<instance, aBuffer, calcRan, stepping, observers>>

\* omega of calcBQRParams.
Omega(frequency, sampleRate) == (2 * PiFx * frequency) \div sampleRate

\* alpha of calcBQRParams.
Alpha(frequency, sampleRate, resonance) ==
    Sin(Omega(frequency, sampleRate)) \div (2 * resonance)

\* scalar of calcBQRParams.
Scalar(alpha) == Div(One, One + alpha)

\* The coefficients <<mA0, mA1, mA2, mB1, mB2>> calcBQRParams leaves, given
\* the ones it finds: the switch on mFilterType.
CalcCoefs(type, sampleRate, frequency, resonance, old) ==
    LET cos_omega == Cos(Omega(frequency, sampleRate))
        alpha == Alpha(frequency, sampleRate, resonance)
        scalar == Scalar(alpha)
        b1 == Mul(-2 * cos_omega, scalar)
        b2 == Mul(One - alpha, scalar)
    IN  CASE type = "NONE" -> old
          [] type = "LOWPASS" ->
                LET a0 == Mul((One - cos_omega) \div 2, scalar)
                IN  <<a0, Mul(One - cos_omega, scalar), a0, b1, b2>>
          [] type = "HIGHPASS" ->
                LET a0 == Mul((One + cos_omega) \div 2, scalar)
                IN  <<a0, Mul(-(One + cos_omega), scalar), a0, b1, b2>>
          [] type = "BANDPASS" ->
                LET a0 == Mul(alpha, scalar)
                IN  <<a0, 0, -a0, b1, b2>>

\* calcBQRParams without "mActive = 0" in the case NONE.
CalcActive_Always(type) == 1

\* mActive as calcBQRParams leaves it.
CalcActive(type) == IF type = "NONE" THEN 0 ELSE 1

\* The field of attribute a.
Param(a) ==
    IF a = FREQUENCY THEN mFrequency
    ELSE IF a = SAMPLERATE THEN mSampleRate
    ELSE mResonance

\* The fader of attribute a.
Fader(a) ==
    IF a = FREQUENCY THEN mFrequencyFader
    ELSE IF a = SAMPLERATE THEN mSampleRateFader
    ELSE mResonanceFader

(* ------------------------------------------------------------------ *)
(* The sample loop of filter()                                         *)
(* ------------------------------------------------------------------ *)

\* (float) 1.0E-26, the impulse added to mY1 after a block: the smallest
\* positive amount the fixed point holds.
Bias == 1

\* Sample memory: a function from the indices 0 .. n-1.
Rd(buf, k) == IF k \in DOMAIN buf THEN buf[k] ELSE 0
Wr(buf, k, v) == IF k \in DOMAIN buf THEN [buf EXCEPT ![k] = v] ELSE buf

\* aStereo ? 2 : 1
Pitch(aStereo) == IF aStereo THEN 2 ELSE 1

\* The two indices one loop iteration touches.
FirstIndex(i, pitch, s) == i * pitch + s
SecondIndex(i, pitch, s) == (i + 1) * pitch + s

\* Every channel on the history of channel 0.
Hist_Shared(s) == 0

\* The channel whose history the iterations of channel s use.
Hist(s) == s

\* (mA0 * x) + (mA1 * x1) + (mA2 * x2) - (mB1 * y1) - (mB2 * y2)
Recur(c, x, x1, x2, y1, y2) ==
    Mul(c[1], x) + Mul(c[2], x1) + Mul(c[3], x2) - Mul(c[4], y1) - Mul(c[5], y2)

\* One iteration that ends on "mX1 = x" in place of "mX1 = mX2; mX2 = x".
LoopBody_NoRotate(st, c, i, pitch, s) ==
    LET h == Hist(s)
        x == Rd(st.buf, FirstIndex(i, pitch, s))
        y2 == Recur(c, x, st.x1[h], st.x2[h], st.y1[h], st.y2[h])
        buf1 == Wr(st.buf, FirstIndex(i, pitch, s), y2)
        x2 == Rd(buf1, SecondIndex(i, pitch, s))
        y1 == Recur(c, x2, x, st.x1[h], y2, st.y1[h])
        buf2 == Wr(buf1, SecondIndex(i, pitch, s), y1)
    IN  [buf |-> buf2,
         x1 |-> [st.x1 EXCEPT ![h] = x],
         x2 |-> [st.x2 EXCEPT ![h] = x2],
         y1 |-> [st.y1 EXCEPT ![h] = y1],
         y2 |-> [st.y2 EXCEPT ![h] = y2]]

\* One iteration of the inner loop for channel s at index i, on
\* st = [buf, x1, x2, y1, y2] with the coefficients c.
LoopBody(st, c, i, pitch, s) ==
    LET h == Hist(s)
        x == Rd(st.buf, FirstIndex(i, pitch, s))
        y2 == Recur(c, x, st.x1[h], st.x2[h], st.y1[h], st.y2[h])
        buf1 == Wr(st.buf, FirstIndex(i, pitch, s), y2)
        x2 == Rd(buf1, SecondIndex(i, pitch, s))
        y1 == Recur(c, x2, x, st.x1[h], y2, st.y1[h])
        buf2 == Wr(buf1, SecondIndex(i, pitch, s), y1)
    IN  [buf |-> buf2,
         x1 |-> [st.x1 EXCEPT ![h] = x2],
         x2 |-> [st.x2 EXCEPT ![h] = x],
         y1 |-> [st.y1 EXCEPT ![h] = y1],
         y2 |-> [st.y2 EXCEPT ![h] = y2]]

\* The loop test as i <= aSamples.
LoopContinues_Inclusive(i, aSamples) == i <= aSamples

\* for (i = ...; i < aSamples; i += 2)
LoopContinues(i, aSamples) == i < aSamples

\* mY1[s] += (float) 1.0E-26
ChannelEnd(st, s) == [st EXCEPT !.y1[Hist(s)] = @ + Bias]

RECURSIVE InnerLoop(_, _, _, _, _, _)
\* The inner loop for channel s, from index i on.
InnerLoop(st, c, i, aSamples, pitch, s) ==
    IF LoopContinues(i, aSamples)
    THEN InnerLoop(LoopBody(st, c, i, pitch, s), c, i + 2, aSamples, pitch, s)
    ELSE st

RECURSIVE OuterLoop(_, _, _, _, _)
\* for (s = ...; s < pitch; s++), from channel s on.
OuterLoop(st, c, aSamples, pitch, s) ==
    IF s < pitch
    THEN OuterLoop(ChannelEnd(InnerLoop(st, c, 0, aSamples, pitch, s), s),
                   c, aSamples, pitch, s + 1)
    ELSE st

(* ------------------------------------------------------------------ *)
(* The calls, each as one step                                         *)
(* ------------------------------------------------------------------ *)

Off(fd) == [fd EXCEPT !.mActive = 0]

\* setFilterParameter with the statements of each case chosen by two flags.
WriteParameter(aAttributeId, aValue, marksDirty, stopsFader) ==
    LET hit(a) == aAttributeId = a
        fd(a, f) == IF hit(a) /\ stopsFader THEN Off(f) ELSE f
    IN  /\ UNCHANGED <<mFilterType, mActive, coefs, history>>
        /\ mDirty' = IF aAttributeId \in Attributes /\ marksDirty THEN 1 ELSE mDirty
        /\ mFrequency' = IF hit(FREQUENCY) THEN aValue ELSE mFrequency
        /\ mSampleRate' = IF hit(SAMPLERATE) THEN aValue ELSE mSampleRate
        /\ mResonance' = IF hit(RESONANCE) THEN aValue ELSE mResonance
        /\ mFrequencyFader' = fd(FREQUENCY, mFrequencyFader)
        /\ mSampleRateFader' = fd(SAMPLERATE, mSampleRateFader)
        /\ mResonanceFader' = fd(RESONANCE, mResonanceFader)

\* setFilterParameter without the lines "fader.mActive = 0".
setFilterParameter_KeepsFader(aAttributeId, aValue) ==
    WriteParameter(aAttributeId, aValue, TRUE, FALSE)

\* setFilterParameter without the lines "mDirty = 1".
setFilterParameter_NotDirty(aAttributeId, aValue) ==
    WriteParameter(aAttributeId, aValue, FALSE, TRUE)

\* setFilterParameter
setFilterParameter(aAttributeId, aValue) ==
    /\ UNCHANGED <<mFilterType, mActive, coefs, history>>
    /\ CASE aAttributeId = FREQUENCY ->
                /\ mDirty' = 1
                /\ mFrequencyFader' = Off(mFrequencyFader)
                /\ mFrequency' = aValue
                /\ UNCHANGED <<mSampleRate, mResonance, mSampleRateFader, mResonanceFader>>
         [] aAttributeId = SAMPLERATE ->
                /\ mDirty' = 1
                /\ mSampleRateFader' = Off(mSampleRateFader)
                /\ mSampleRate' = aValue
                /\ UNCHANGED <<mFrequency, mResonance, mFrequencyFader, mResonanceFader>>
         [] aAttributeId = RESONANCE ->
                /\ mDirty' = 1
                /\ mResonanceFader' = Off(mResonanceFader)
                /\ mResonance' = aValue
                /\ UNCHANGED <<mFrequency, mSampleRate, mFrequencyFader, mSampleRateFader>>
         [] OTHER ->
                UNCHANGED <<mDirty, mFrequency, mSampleRate, mResonance, faders>>

\* The early return without the test of aTime.
Refused_EqualOnly(aFrom, aTo, aTime) == aFrom = aTo

\* The early return of fadeFilterParameter and oscillateFilterParameter.
Refused(aFrom, aTo, aTime) == aFrom = aTo \/ aTime <= 0

\* The switch of fadeFilterParameter and oscillateFilterParameter: the fader
\* of aAttributeId becomes fd, no fader when the id is none of the three.
ArmFader(aAttributeId, fd) ==
    CASE aAttributeId = FREQUENCY ->
            /\ mFrequencyFader' = fd
            /\ UNCHANGED <<mSampleRateFader, mResonanceFader>>
      [] aAttributeId = SAMPLERATE ->
            /\ mSampleRateFader' = fd
            /\ UNCHANGED <<mFrequencyFader, mResonanceFader>>
      [] aAttributeId = RESONANCE ->
            /\ mResonanceFader' = fd
            /\ UNCHANGED <<mFrequencyFader, mSampleRateFader>>
      [] OTHER -> UNCHANGED faders

\* fadeFilterParameter
fadeFilterParameter(aAttributeId, aFrom, aTo, aTime, aStartTime) ==
    /\ UNCHANGED <<params, mActive, mDirty, coefs, history>>
    /\ IF Refused(aFrom, aTo, aTime)
       THEN UNCHANGED faders
       ELSE ArmFader(aAttributeId, FaderSet(aFrom, aTo, aTime, aStartTime))

\* oscillateFilterParameter
oscillateFilterParameter(aAttributeId, aFrom, aTo, aTime, aStartTime) ==
    /\ UNCHANGED <<params, mActive, mDirty, coefs, history>>
    /\ IF Refused(aFrom, aTo, aTime)
       THEN UNCHANGED faders
       ELSE ArmFader(aAttributeId, FaderSetLFO(aFrom, aTo, aTime, aStartTime))

\* if (fader.mActive > 0) { mDirty = 1; field = fader.get(aTime); }
FaderDrives(fd) == fd.mActive > 0
FadedValue(fd, field, aTime) ==
    IF FaderDrives(fd) THEN FaderGetValue(fd, aTime) ELSE field
FadedFader_Stops(fd, aTime) ==
    IF FaderDrives(fd) THEN Off(fd) ELSE fd
FadedFader(fd, aTime) ==
    IF FaderDrives(fd) THEN FaderGetState(fd, aTime) ELSE fd
\* The test of the faders as "mActive >= 0".
FadedDirty_AnyFader ==
    IF \E a \in Attributes : Fader(a).mActive >= 0 THEN 1 ELSE mDirty

FadedDirty ==
    IF \E a \in Attributes : FaderDrives(Fader(a)) THEN 1 ELSE mDirty

\* filter() from the test of the faders to "if (mDirty) calcBQRParams()":
\* the fields, faders and coefficients these lines leave.
Prologue(aTime) ==
    LET frequency == FadedValue(mFrequencyFader, mFrequency, aTime)
        resonance == FadedValue(mResonanceFader, mResonance, aTime)
        sampleRate == FadedValue(mSampleRateFader, mSampleRate, aTime)
        dirty == FadedDirty
    IN  [frequency |-> frequency, resonance |-> resonance, sampleRate |-> sampleRate,
         frequencyFader |-> FadedFader(mFrequencyFader, aTime),
         resonanceFader |-> FadedFader(mResonanceFader, aTime),
         sampleRateFader |-> FadedFader(mSampleRateFader, aTime),
         calc |-> (dirty # 0),
         c |-> IF dirty # 0
               THEN CalcCoefs(mFilterType, sampleRate, frequency, resonance, coefs)
               ELSE coefs]

\* The assignments of those lines.
ApplyPrologue(h) ==
    /\ mFrequency' = h.frequency
    /\ mResonance' = h.resonance
    /\ mSampleRate' = h.sampleRate
    /\ mFrequencyFader' = h.frequencyFader
    /\ mResonanceFader' = h.resonanceFader
    /\ mSampleRateFader' = h.sampleRateFader
    /\ calcRan' = h.calc
    /\ mDirty' = IF h.calc THEN 0 ELSE mDirty
    /\ mActive' = IF h.calc THEN CalcActive(mFilterType) ELSE mActive
    /\ mA0' = h.c[1]
    /\ mA1' = h.c[2]
    /\ mA2' = h.c[3]
    /\ mB1' = h.c[4]
    /\ mB2' = h.c[5]
    /\ UNCHANGED mFilterType

\* filter() past the test of mActive: the faders, the coefficients and the
\* sample loops.
FilterActive(buf, aSamples, aStereo, aTime) ==
    LET h == Prologue(aTime)
        st == OuterLoop([buf |-> buf, x1 |-> mX1, x2 |-> mX2, y1 |-> mY1, y2 |-> mY2],
                        h.c, aSamples, Pitch(aStereo), 0)
    IN  /\ ApplyPrologue(h)
        /\ aBuffer' = st.buf
        /\ mX1' = st.x1
        /\ mX2' = st.x2
        /\ mY1' = st.y1
        /\ mY2' = st.y2

\* filter() without "if (!mActive) return".
filter_NoReturn(buf, aSamples, aStereo, aSamplerate, aTime) ==
    FilterActive(buf, aSamples, aStereo, aTime)

\* filter()
filter(buf, aSamples, aStereo, aSamplerate, aTime) ==
    IF mActive = 0
    THEN /\ aBuffer' = buf
         /\ calcRan' = FALSE
         /\ UNCHANGED instance
    ELSE FilterActive(buf, aSamples, aStereo, aTime)

(* ------------------------------------------------------------------ *)
(* Specification Spec: an instance and the calls made on it, one after *)
(* another                                                             *)
(* ------------------------------------------------------------------ *)

\* Sample memory holding the samples of seq.
Mem(seq) == [k \in 0 .. Len(seq) - 1 |-> seq[k + 1]]

\* The block the caller hands to filter() at aTime: mono and stereo blocks
\* alternate.
BlockAt(aTime) ==
    IF aTime % 2 = 1
    THEN [buf |-> Mem(<<One, -500>>), aSamples |-> 2, aStereo |-> FALSE]
    ELSE [buf |-> Mem(<<One, 0, -500, One>>), aSamples |-> 2, aStereo |-> TRUE]

\* The settings of the BiquadResonantFilter the instance is created from.
ParentSampleRates == {8000}
ParentResonances == {1}

\* What a request is by its arguments alone: one that names no attribute, or a
\* fade or oscillation between equal ends or over no time, is "rejected".
Kind(op, aAttributeId, aFrom, aTo, aTime) ==
    IF aAttributeId \notin Attributes \/ (op # "set" /\ (aFrom = aTo \/ aTime <= 0))
    THEN [op |-> "rejected", attr |-> FREQUENCY, in |-> <<>>]
    ELSE [op |-> op, attr |-> aAttributeId, in |-> <<>>]

NoCall == [op |-> "new", attr |-> FREQUENCY, in |-> <<>>]

NoFrame == [aSamples |-> 0, aStereo |-> FALSE, pitch |-> 0, s |-> 0, i |-> 0]
NoSetter == [at |-> "none", aAttributeId |-> FREQUENCY, aValue |-> 0]
NoLog == [reads |-> {}, writes |-> <<>>, entry |-> <<>>]

\* BiquadResonantFilterInstance(aParent), aParent holding (type, sampleRate,
\* resonance); frequency and garbage are what the unassigned members hold.
Construct(type, sampleRate, resonance, frequency, garbage) ==
    LET c == CalcCoefs(type, sampleRate, frequency, resonance, garbage)
    IN  /\ mX1 = [s \in {0, 1} |-> 0]
        /\ mX2 = [s \in {0, 1} |-> 0]
        /\ mY1 = [s \in {0, 1} |-> 0]
        /\ mY2 = [s \in {0, 1} |-> 0]
        /\ mFilterType = type
        /\ mSampleRate = sampleRate
        /\ mResonance = resonance
        /\ mFrequency = frequency
        /\ mFrequencyFader = NewFader
        /\ mSampleRateFader = NewFader
        /\ mResonanceFader = NewFader
        /\ mDirty = 0
        /\ mActive = CalcActive(type)
        /\ mA0 = c[1]
        /\ mA1 = c[2]
        /\ mA2 = c[3]
        /\ mB1 = c[4]
        /\ mB2 = c[5]

Init ==
    /\ \E type \in FilterTypes, sampleRate \in ParentSampleRates,
          resonance \in ParentResonances, frequency \in Indeterminate,
          garbage \in IndeterminateCoefs :
            Construct(type, sampleRate, resonance, frequency, garbage)
    /\ aBuffer = <<>>
    /\ calcRan = FALSE
    /\ pc = "idle"
    /\ frame = NoFrame
    /\ setter = NoSetter
    /\ log = NoLog
    /\ now = 0
    /\ call = NoCall
    /\ pending = [a \in Attributes |-> {}]
    /\ ramping = {}
    /\ requests = 0

Set ==
    \E aAttributeId \in AttributeIds :
    \E aValue \in ParamValues(aAttributeId) :
        /\ requests < MaxRequests
        /\ setFilterParameter(aAttributeId, aValue)
        /\ call' = Kind("set", aAttributeId, 0, 0, 0)
        /\ pending' = IF aAttributeId \in Attributes
                      THEN [pending EXCEPT ![aAttributeId] = {aValue}]
                      ELSE pending
        /\ ramping' = {}
        /\ requests' = requests + 1
        /\ UNCHANGED <<aBuffer, calcRan, stepping, now>>

Fade ==
    \E aAttributeId \in AttributeIds :
    \E aFrom \in ParamValues(aAttributeId), aTo \in ParamValues(aAttributeId) :
    \E aTime \in Durations :
        /\ requests < MaxRequests
        /\ fadeFilterParameter(aAttributeId, aFrom, aTo, aTime, now)
        /\ call' = Kind("fade", aAttributeId, aFrom, aTo, aTime)
        /\ pending' = IF Kind("fade", aAttributeId, aFrom, aTo, aTime).op # "rejected"
                      THEN [pending EXCEPT ![aAttributeId] = {}]
                      ELSE pending
        /\ ramping' = IF Kind("fade", aAttributeId, aFrom, aTo, aTime).op # "rejected"
                      THEN {aAttributeId}
                      ELSE {}
        /\ requests' = requests + 1
        /\ UNCHANGED <<aBuffer, calcRan, stepping, now>>

Oscillate ==
    \E aAttributeId \in AttributeIds :
    \E aFrom \in ParamValues(aAttributeId), aTo \in ParamValues(aAttributeId) :
    \E aTime \in Durations :
        /\ requests < MaxRequests
        /\ oscillateFilterParameter(aAttributeId, aFrom, aTo, aTime, now)
        /\ call' = Kind("oscillate", aAttributeId, aFrom, aTo, aTime)
        /\ pending' = IF Kind("fade", aAttributeId, aFrom, aTo, aTime).op # "rejected"
                      THEN [pending EXCEPT ![aAttributeId] = {}]
                      ELSE pending
        /\ ramping' = {}
        /\ requests' = requests + 1
        /\ UNCHANGED <<aBuffer, calcRan, stepping, now>>

Process ==
    \E aSamplerate \in ParamValues(SAMPLERATE) :
    \E aTime \in { now + d : d \in Steps } :
        /\ aTime <= MaxTime
        /\ filter(BlockAt(aTime).buf, BlockAt(aTime).aSamples, BlockAt(aTime).aStereo,
                  aSamplerate, aTime)
        /\ now' = aTime
        /\ call' = [op |-> "filter", attr |-> FREQUENCY, in |-> BlockAt(aTime).buf]
        /\ pending' = IF mActive # 0 THEN [a \in Attributes |-> {}] ELSE pending
        /\ UNCHANGED <<stepping, ramping, requests>>

Next == Set \/ Fade \/ Oscillate \/ Process

Spec == Init /\ [][Next]_vars

(* ------------------------------------------------------------------ *)
(* Properties of Spec                                                  *)
(* ------------------------------------------------------------------ *)

\* The coefficients calcBQRParams would compute from the fields as they are.
Derived == CalcCoefs(mFilterType, mSampleRate, mFrequency, mResonance, coefs)

Lo(fd) == Min(fd.mFrom, fd.mTo)
Hi(fd) == Max(fd.mFrom, fd.mTo)

\* C1: on an active instance, setFilterParameter(a, v) made while the fader
\* of a is active leaves that fader inactive on return; and the next filter()
\* call after a setFilterParameter(a, v) that no fade or oscillation of a has
\* followed leaves the field of a at v, the coefficients derived from the
\* fields (so from v) and mDirty at 0.
C1_SetOverridesFader ==
    [][\A a \in Attributes :
          /\ (mActive # 0 /\ call'.op = "set" /\ call'.attr = a /\ Fader(a).mActive > 0)
                => Fader(a)'.mActive = 0
          /\ (mActive # 0 /\ call'.op = "filter" /\ pending[a] # {})
                => /\ pending[a] = {Param(a)'}
                   /\ coefs' = Derived'
                   /\ mDirty' = 0
                   /\ calcRan']_vars

\* C1 witness: a filter() call has just run on an active instance whose
\* frequency ramp was cut short by a set request (the ramp's end is still
\* ahead, yet its fader is off) and the coefficients were recomputed.
C1_Witness ==
    /\ mActive # 0
    /\ call.op = "filter"
    /\ calcRan
    /\ mFrequencyFader.mActive = 0
    /\ mFrequencyFader.mTime > 0
    /\ now < mFrequencyFader.mStartTime + mFrequencyFader.mTime
    /\ mFrequency \notin {mFrequencyFader.mFrom, RampValue(mFrequencyFader, now)}

\* C2: an instance created with type NONE is never active, and every
\* filter() call on it leaves the sample memory exactly as it was handed in.
C2_IdentityWhenNone ==
    mFilterType = "NONE" =>
        /\ mActive = 0
        /\ call.op = "filter" => aBuffer = call.in

\* C2 witness: a NONE instance with a request made on it (mDirty set, a
\* fader running) after a filter() call on a stereo block.
C2_Witness ==
    /\ mFilterType = "NONE"
    /\ call.op = "filter"
    /\ mDirty = 1
    /\ \E a \in Attributes : Fader(a).mActive > 0
    /\ aBuffer = Mem(<<One, 0, -500, One>>)

\* C3: whenever mDirty is 0 the coefficients are the ones calcBQRParams
\* derives from the current type, sample rate, frequency and resonance.
C3_CoefficientsConsistent ==
    mDirty = 0 => coefs = Derived

\* C3 witness: an active instance, after requests and a filter() call that
\* recomputed the coefficients from a frequency that was set.
C3_Witness ==
    /\ mDirty = 0
    /\ mActive # 0
    /\ requests > 0
    /\ call.op = "filter"
    /\ calcRan
    /\ mFrequency \in ParamValues(FREQUENCY)

\* A filter() call at time t finds the ramp of attribute a at or past its end.
RampEnds(a, t) ==
    Fader(a).mActive = 1 /\ t >= Fader(a).mStartTime + Fader(a).mTime

\* The first half of C4: the filter() call that finds the ramp of a at or
\* past its end leaves the field of a at mTo and the fader off.
RampConverges(a) ==
    (mActive # 0 /\ call'.op = "filter" /\ RampEnds(a, now'))
        => Param(a)' = Fader(a).mTo /\ Fader(a)'.mActive = 0

\* A filter() call that neither sets mDirty nor recomputes the coefficients.
NoRecompute == ~calcRan' /\ mDirty' = 0 /\ coefs' = coefs

\* C4 as claimed: after fadeFilterParameter(a, ...) on an active instance,
\* the filter() call at or past the ramp's end leaves the field at mTo and
\* the fader off, and every later filter() call, no request having followed
\* the fade, neither sets mDirty nor recomputes the coefficients.
C4_RampConvergence_Claimed ==
    [][\A a \in Attributes :
          /\ RampConverges(a)
          /\ (mActive # 0 /\ call'.op = "filter" /\ a \in ramping /\ Fader(a).mActive = 0)
                => NoRecompute]_vars

\* C4 amended: as claimed, the later filter() calls being those made while
\* no fader of another attribute is active.
C4_RampConvergence ==
    [][\A a \in Attributes :
          /\ RampConverges(a)
          /\ (/\ mActive # 0
              /\ call'.op = "filter"
              /\ a \in ramping
              /\ Fader(a).mActive = 0
              /\ \A b \in Attributes : ~FaderDrives(Fader(b)))
                => NoRecompute /\ Param(a)' = Fader(a).mTo]_vars

\* C4 witness: the ramp of the last request is over (its fader off, the field
\* at mTo) and a later filter() call has run without recomputing.
C4_Witness ==
    \E a \in ramping :
        /\ mActive # 0
        /\ call.op = "filter"
        /\ Fader(a).mActive = 0
        /\ Param(a) = Fader(a).mTo
        /\ now > Fader(a).mStartTime + Fader(a).mTime
        /\ ~calcRan

\* C5: a filter() call on an active instance at a time at or after the start
\* of an oscillation leaves its fader oscillating and the field within the
\* two ends; an oscillating fader stops oscillating only by a set request or
\* a fade of its attribute.
C5_OscillationPersists ==
    [][\A a \in Attributes :
          /\ (/\ mActive # 0
              /\ call'.op = "filter"
              /\ Fader(a).mActive = 2
              /\ now' >= Fader(a).mStartTime)
                => /\ Fader(a)'.mActive = 2
                   /\ Param(a)' \in Lo(Fader(a)) .. Hi(Fader(a))
          /\ (Fader(a).mActive = 2 /\ Fader(a)'.mActive # 2)
                => call'.op \in {"set", "fade"} /\ call'.attr = a]_vars

\* C5 witness: an oscillation still running after filter() calls over more
\* than one period, the field off its starting value.
C5_Witness ==
    \E a \in Attributes :
        /\ mActive # 0
        /\ call.op = "filter"
        /\ Fader(a).mActive = 2
        /\ now > Fader(a).mStartTime + Fader(a).mTime
        /\ Param(a) = Fader(a).mTo

\* C6: a request that is rejected (a fade or oscillation between equal ends
\* or over no time, or any request naming none of the three attributes)
\* leaves the parameters, the faders, mDirty, mActive, the coefficients and
\* the history as they were.
C6_RejectedIsNoOp ==
    [][call'.op = "rejected" => UNCHANGED instance]_vars

\* C6 witness: a request has just been rejected while a fader was running
\* and mDirty was clear.
C6_Witness ==
    /\ call.op = "rejected"
    /\ mDirty = 0
    /\ \E a \in Attributes : Fader(a).mActive > 0

(* ------------------------------------------------------------------ *)
(* Specification SpecDsp: one filter() call, an iteration of its       *)
(* sample loop at a time                                               *)
(* ------------------------------------------------------------------ *)

\* Largest aSamples the caller passes.
MaxSamples == 4

\* Sample values in the caller's memory.
SampleValues == {One, -500}

\* The memory the call can reach: the aSamples * pitch samples of the block
\* and, when aSamples is odd, the pitch cells the last iteration touches
\* beyond it.
MemoryCells(aSamples, pitch) == (aSamples + (aSamples % 2)) * pitch

ZeroHistory == [s \in {0, 1} |-> 0]

NoFaders == [a \in Attributes |-> NewFader]

\* The types and the frequency of the instances filter() is stepped on.
DspTypes == {"NONE", "LOWPASS", "BANDPASS"}
DspFrequency == CHOOSE f \in ParamValues(FREQUENCY) : \A g \in ParamValues(FREQUENCY) : g <= f

\* The instance filter() is called on: created from a parent and then either
\* given a frequency by setFilterParameter (warm = FALSE) or also run over
\* one stereo block (warm = TRUE), and then its faders armed as fds.
InitInstance(type, garbage, frequency, warm, fds) ==
    LET sampleRate == CHOOSE r \in ParentSampleRates : TRUE
        resonance == CHOOSE r \in ParentResonances : TRUE
        first == CalcCoefs(type, sampleRate, CHOOSE f \in Indeterminate : TRUE,
                           resonance, garbage)
        c == IF warm
             THEN CalcCoefs(type, sampleRate, frequency, resonance, first)
             ELSE first
        st == IF warm /\ type # "NONE"
              THEN OuterLoop([buf |-> BlockAt(0).buf, x1 |-> ZeroHistory,
                              x2 |-> ZeroHistory, y1 |-> ZeroHistory, y2 |-> ZeroHistory],
                             c, BlockAt(0).aSamples, Pitch(BlockAt(0).aStereo), 0)
              ELSE [x1 |-> ZeroHistory, x2 |-> ZeroHistory,
                    y1 |-> ZeroHistory, y2 |-> ZeroHistory]
    IN  /\ mFilterType = type
        /\ mSampleRate = sampleRate
        /\ mResonance = resonance
        /\ mFrequency = frequency
        /\ mFrequencyFader = fds[FREQUENCY]
        /\ mSampleRateFader = fds[SAMPLERATE]
        /\ mResonanceFader = fds[RESONANCE]
        /\ mDirty = IF warm /\ type # "NONE" THEN 0 ELSE 1
        /\ mActive = CalcActive(type)
        /\ mA0 = c[1]
        /\ mA1 = c[2]
        /\ mA2 = c[3]
        /\ mB1 = c[4]
        /\ mB2 = c[5]
        /\ mX1 = st.x1
        /\ mX2 = st.x2
        /\ mY1 = st.y1
        /\ mY2 = st.y2

InitDsp ==
    /\ \E type \in DspTypes, warm \in BOOLEAN :
          InitInstance(type, <<0, 0, 0, 0, 0>>, DspFrequency, warm, NoFaders)
    /\ \E aSamples \in 0 .. MaxSamples, aStereo \in BOOLEAN :
          /\ frame = [aSamples |-> aSamples, aStereo |-> aStereo,
                      pitch |-> 0, s |-> 0, i |-> 0]
          /\ aBuffer \in [0 .. MemoryCells(aSamples, Pitch(aStereo)) - 1 -> SampleValues]
    /\ call = [op |-> "filter", attr |-> FREQUENCY, in |-> aBuffer]
    /\ log = [reads |-> {}, writes |-> <<>>, entry |-> history]
    /\ pc = "entry"
    /\ calcRan = FALSE
    /\ setter = NoSetter
    /\ now = 1
    /\ pending = [a \in Attributes |-> {}]
    /\ ramping = {}
    /\ requests = 0

\* Lines 95-96: the instance is not active, filter() returns.
DspReturnInactive ==
    /\ pc = "entry"
    /\ mActive = 0
    /\ pc' = "done"
    /\ UNCHANGED <<instance, aBuffer, calcRan, frame, setter, log, observers>>

\* Lines 98-121: the faders, calcBQRParams, pitch; s = 0 of the outer loop.
DspPrologue ==
    /\ pc = "entry"
    /\ mActive # 0
    /\ ApplyPrologue(Prologue(now))
    /\ frame' = [frame EXCEPT !.pitch = Pitch(frame.aStereo), !.s = 0]
    /\ pc' = "outer"
    /\ UNCHANGED <<history, aBuffer, setter, log, observers>>

\* Line 123, s < pitch: the inner loop starts at i = 0.
DspChannel ==
    /\ pc = "outer"
    /\ frame.s < frame.pitch
    /\ frame' = [frame EXCEPT !.i = 0]
    /\ pc' = "inner"
    /\ UNCHANGED <<instance, aBuffer, calcRan, setter, log, observers>>

\* Lines 125-141: one iteration of the inner loop, then i += 2.
DspIterate ==
    /\ pc = "inner"
    /\ LoopContinues(frame.i, frame.aSamples)
    /\ LET st == LoopBody([buf |-> aBuffer, x1 |-> mX1, x2 |-> mX2, y1 |-> mY1, y2 |-> mY2],
                           coefs, frame.i, frame.pitch, frame.s)
           k1 == FirstIndex(frame.i, frame.pitch, frame.s)
           k2 == SecondIndex(frame.i, frame.pitch, frame.s)
       IN  /\ aBuffer' = st.buf
           /\ mX1' = st.x1
           /\ mX2' = st.x2
           /\ mY1' = st.y1
           /\ mY2' = st.y2
           /\ log' = [log EXCEPT !.reads = @ \cup {k1, k2},
                                 !.writes = @ \o << <<frame.s, k1>>, <<frame.s, k2>> >>]
    /\ frame' = [frame EXCEPT !.i = @ + 2]
    /\ UNCHANGED <<params, mActive, mDirty, coefs, faders, calcRan, pc, setter, observers>>

\* Line 125 false, line 145: the impulse on mY1[s], then s++.
DspChannelEnd ==
    /\ pc = "inner"
    /\ ~LoopContinues(frame.i, frame.aSamples)
    /\ LET st == ChannelEnd([x1 |-> mX1, x2 |-> mX2, y1 |-> mY1, y2 |-> mY2], frame.s)
       IN  /\ mX1' = st.x1
           /\ mX2' = st.x2
           /\ mY1' = st.y1
           /\ mY2' = st.y2
    /\ frame' = [frame EXCEPT !.s = @ + 1]
    /\ pc' = "outer"
    /\ UNCHANGED <<params, mActive, mDirty, coefs, faders, aBuffer, calcRan, setter, log,
                   observers>>

\* Line 123 false: filter() returns.
DspReturn ==
    /\ pc = "outer"
    /\ frame.s >= frame.pitch
    /\ pc' = "done"
    /\ UNCHANGED <<instance, aBuffer, calcRan, frame, setter, log, observers>>

NextDsp ==
    \/ DspReturnInactive
    \/ DspPrologue
    \/ DspChannel
    \/ DspIterate
    \/ DspChannelEnd
    \/ DspReturn

SpecDsp == InitDsp /\ [][NextDsp]_vars

(* ------------------------------------------------------------------ *)
(* Properties of SpecDsp                                               *)
(* ------------------------------------------------------------------ *)

\* The n samples of channel s in memory buf of the given pitch.
Channel(buf, s, pitch, n) == [k \in 0 .. n - 1 |-> buf[k * pitch + s]]

Even(n) == n % 2 = 0

\* The history of channel s when the call was entered, as the history of
\* a mono instance.
EntryHistory(s) ==
    [x1 |-> [ch \in {0, 1} |-> log.entry[1][s]],
     x2 |-> [ch \in {0, 1} |-> log.entry[2][s]],
     y1 |-> [ch \in {0, 1} |-> log.entry[3][s]],
     y2 |-> [ch \in {0, 1} |-> log.entry[4][s]]]

\* filter() on a mono block xs of n samples, on an instance with the
\* coefficients c and the history h.
MonoFilter(c, xs, n, h) ==
    OuterLoop([buf |-> xs, x1 |-> h.x1, x2 |-> h.x2, y1 |-> h.y1, y2 |-> h.y2],
              c, n, 1, 0)

\* C7: when filter() returns from an even stereo block, the samples and the
\* history of each channel s are those of filter() on the mono block of that
\* channel's input, with the same coefficients and that channel's history at
\* entry; and every write of the iterations of channel s went to an index of
\* channel s.
C7_ChannelsIndependent ==
    (mActive # 0 /\ frame.aStereo /\ Even(frame.aSamples)) =>
        /\ \A k \in 1 .. Len(log.writes) : log.writes[k][2] % 2 = log.writes[k][1]
        /\ pc = "done" =>
              \A s \in {0, 1} :
                 LET mono == MonoFilter(coefs, Channel(call.in, s, 2, frame.aSamples),
                                        frame.aSamples, EntryHistory(s))
                 IN  /\ Channel(aBuffer, s, 2, frame.aSamples) = mono.buf
                     /\ mX1[s] = mono.x1[0]
                     /\ mX2[s] = mono.x2[0]
                     /\ mY1[s] = mono.y1[0]
                     /\ mY2[s] = mono.y2[0]

\* C7 witness: filter() has returned from a stereo block of four samples
\* whose two channels held different input, on a warm instance.
C7_Witness ==
    /\ pc = "done"
    /\ mActive # 0
    /\ frame.aStereo
    /\ frame.aSamples = 4
    /\ Channel(call.in, 0, 2, 4) # Channel(call.in, 1, 2, 4)
    /\ Channel(aBuffer, 0, 2, 4) # Channel(aBuffer, 1, 2, 4)
    /\ log.entry[3][0] # log.entry[3][1]

RECURSIVE Direct(_, _, _, _, _)
\* The recurrence y[n] = a0 x[n] + a1 x[n-1] + a2 x[n-2] - b1 y[n-1] - b2 y[n-2]
\* over samples n .. upto-1 of xs, from d = [x1, x2, y1, y2, out]: the last
\* two inputs, the last two outputs and the outputs so far.
Direct(c, xs, n, upto, d) ==
    IF n >= upto THEN d
    ELSE LET y == Recur(c, xs[n], d.x1, d.x2, d.y1, d.y2)
         IN  Direct(c, xs, n + 1, upto,
                    [x1 |-> xs[n], x2 |-> d.x1, y1 |-> y, y2 |-> d.y1,
                     out |-> Append(d.out, y)])

\* The recurrence over the first n samples of channel s of the block.
DirectOfChannel(s, n) ==
    Direct(coefs, Channel(call.in, s, frame.pitch, frame.aSamples), 0, n,
           [x1 |-> log.entry[1][s], x2 |-> log.entry[2][s],
            y1 |-> log.entry[3][s], y2 |-> log.entry[4][s], out |-> <<>>])

\* C8: on an even block, after every iteration of the loop of channel s the
\* samples written so far are the outputs of the plain recurrence on that
\* channel's input, and mX1, mX2, mY1, mY2 of s hold the last input, the one
\* before, the last output and the one before; when filter() returns they
\* still do, but for the impulse added to mY1.
C8_LoopIsRecurrence ==
    (mActive # 0 /\ Even(frame.aSamples)) =>
        /\ pc = "inner" =>
              LET s == frame.s
                  d == DirectOfChannel(s, frame.i)
              IN  /\ \A n \in 0 .. frame.i - 1 :
                        aBuffer[n * frame.pitch + s] = d.out[n + 1]
                  /\ <<mX1[s], mX2[s], mY1[s], mY2[s]>> = <<d.x1, d.x2, d.y1, d.y2>>
                  /\ frame.i >= 2 =>
                        /\ mX1[s] = call.in[(frame.i - 1) * frame.pitch + s]
                        /\ mX2[s] = call.in[(frame.i - 2) * frame.pitch + s]
                        /\ mY1[s] = aBuffer[(frame.i - 1) * frame.pitch + s]
                        /\ mY2[s] = aBuffer[(frame.i - 2) * frame.pitch + s]
        /\ pc = "done" =>
              \A s \in 0 .. frame.pitch - 1 :
                 LET d == DirectOfChannel(s, frame.aSamples)
                 IN  /\ Channel(aBuffer, s, frame.pitch, frame.aSamples)
                            = [n \in 0 .. frame.aSamples - 1 |-> d.out[n + 1]]
                     /\ <<mX1[s], mX2[s], mY1[s], mY2[s]>>
                            = <<d.x1, d.x2, d.y1 + Bias, d.y2>>

\* C8 witness: two iterations of the loop of the second channel are done, on
\* a warm instance, and the block's input was not constant.
C8_Witness ==
    /\ pc = "inner"
    /\ mActive # 0
    /\ frame.aSamples = 4
    /\ frame.s = 1
    /\ frame.i = 4
    /\ log.entry[3][1] # 0
    /\ call.in[5] # call.in[7]
    /\ mX1[1] # mX2[1]

\* The indices of the block: 0 .. aSamples * pitch - 1.
BlockIndices == 0 .. frame.aSamples * Pitch(frame.aStereo) - 1

\* C9: filter() on an even block reads and writes only indices of the block,
\* writes none of them twice and, when it returns from an active instance,
\* has written every one of them.
C9_StaysInBlock ==
    Even(frame.aSamples) =>
        /\ log.reads \subseteq BlockIndices
        /\ \A k \in 1 .. Len(log.writes) : log.writes[k][2] \in BlockIndices
        /\ \A j, k \in 1 .. Len(log.writes) :
              log.writes[j][2] = log.writes[k][2] => j = k
        /\ (pc = "done" /\ mActive # 0) =>
              /\ { log.writes[k][2] : k \in 1 .. Len(log.writes) } = BlockIndices
              /\ log.reads = BlockIndices

\* C9 witness: filter() has returned from a stereo block of four samples,
\* with eight writes made.
C9_Witness ==
    /\ pc = "done"
    /\ mActive # 0
    /\ frame.aStereo
    /\ frame.aSamples = 4
    /\ Len(log.writes) = 8

(* ------------------------------------------------------------------ *)
(* Specification SpecConc: a setFilterParameter call beside a filter() *)
(* call, the statements of the two interleaved                        *)
(* ------------------------------------------------------------------ *)

\* The order in which filter() tests the faders.
FaderOrder == <<FREQUENCY, RESONANCE, SAMPLERATE>>

\* The fader of one attribute armed at time 0 as a ramp (mode 1) or an
\* oscillation (mode 2) between the attribute's two values, or none (mode 0).
ArmedFaders(b, mode) ==
    [a \in Attributes |->
        IF a = b /\ mode # 0
        THEN [mActive |-> mode,
              mFrom |-> CHOOSE v \in ParamValues(a) : \A w \in ParamValues(a) : v <= w,
              mTo |-> CHOOSE v \in ParamValues(a) : \A w \in ParamValues(a) : w <= v,
              mTime |-> 2, mStartTime |-> 0]
        ELSE NewFader]

InitConc ==
    /\ \E type \in {"LOWPASS", "BANDPASS"}, warm \in BOOLEAN,
          b \in Attributes, mode \in {0, 1, 2} :
            InitInstance(type, <<0, 0, 0, 0, 0>>, DspFrequency, warm, ArmedFaders(b, mode))
    /\ \E aAttributeId \in Attributes :
       \E aValue \in ParamValues(aAttributeId) :
          /\ setter = [at |-> "call", aAttributeId |-> aAttributeId, aValue |-> aValue]
          /\ call = [op |-> "both", attr |-> aAttributeId, in |-> BlockAt(1).buf,
                     overlapped |-> FALSE]
    /\ aBuffer = BlockAt(1).buf
    /\ frame = [aSamples |-> BlockAt(1).aSamples, aStereo |-> BlockAt(1).aStereo, k |-> 1,
                frequency |-> 0, sampleRate |-> 0, resonance |-> 0]
    /\ log = NoLog
    /\ pc = "entry"
    /\ calcRan = FALSE
    /\ now = 1
    /\ pending = [a \in Attributes |-> {}]
    /\ ramping = {}
    /\ requests = 0

\* A statement of filter() runs: the calls overlap if setFilterParameter is
\* between its first and its last statement.
FilterSteps ==
    /\ call' = [call EXCEPT !.overlapped = @ \/ setter.at \in {"fader", "field"}]
    /\ UNCHANGED <<setter, log, now, pending, ramping, requests>>

\* A statement of setFilterParameter runs: the calls overlap if filter() is
\* past its first statement and has not returned.
SetterSteps ==
    /\ call' = [call EXCEPT !.overlapped = @ \/ pc \notin {"entry", "done"}]
    /\ UNCHANGED <<pc, frame, calcRan, aBuffer, log, now, pending, ramping, requests>>

\* The fader filter() is at.
CurrentFader == Fader(FaderOrder[frame.k])

\* After the fader frame.k: the next fader, or line 116.
AfterFader ==
    IF frame.k < Len(FaderOrder)
    THEN pc' = "test" /\ frame' = [frame EXCEPT !.k = @ + 1]
    ELSE pc' = "ifdirty" /\ UNCHANGED frame

\* Line 95: if (!mActive) return.
ConcEntry ==
    /\ pc = "entry"
    /\ pc' = IF mActive = 0 THEN "done" ELSE "test"
    /\ UNCHANGED <<instance, aBuffer, calcRan, frame>>
    /\ FilterSteps

\* Lines 98, 104, 110: if (fader.mActive > 0).
ConcTestFader ==
    /\ pc = "test"
    /\ IF FaderDrives(CurrentFader)
       THEN pc' = "dirty" /\ UNCHANGED frame
       ELSE AfterFader
    /\ UNCHANGED <<instance, aBuffer, calcRan>>
    /\ FilterSteps

\* Lines 100, 106, 112: mDirty = 1.
ConcFaderDirty ==
    /\ pc = "dirty"
    /\ mDirty' = 1
    /\ pc' = "get"
    /\ UNCHANGED <<params, mActive, coefs, history, faders, aBuffer, calcRan, frame>>
    /\ FilterSteps

\* Lines 101, 107, 113: field = fader.get(aTime).
ConcFaderGet ==
    /\ pc = "get"
    /\ LET a == FaderOrder[frame.k]
           v == FaderGetValue(Fader(a), now)
           fd == FaderGetState(Fader(a), now)
       IN  /\ mFrequency' = IF a = FREQUENCY THEN v ELSE mFrequency
           /\ mSampleRate' = IF a = SAMPLERATE THEN v ELSE mSampleRate
           /\ mResonance' = IF a = RESONANCE THEN v ELSE mResonance
           /\ mFrequencyFader' = IF a = FREQUENCY THEN fd ELSE mFrequencyFader
           /\ mSampleRateFader' = IF a = SAMPLERATE THEN fd ELSE mSampleRateFader
           /\ mResonanceFader' = IF a = RESONANCE THEN fd ELSE mResonanceFader
    /\ AfterFader
    /\ UNCHANGED <<mFilterType, mActive, mDirty, coefs, history, aBuffer, calcRan>>
    /\ FilterSteps

\* Line 116: if (mDirty).
ConcTestDirty ==
    /\ pc = "ifdirty"
    /\ pc' = IF mDirty # 0 THEN "calc38" ELSE "loops"
    /\ UNCHANGED <<instance, aBuffer, calcRan, frame>>
    /\ FilterSteps

\* Line 38: mDirty = 0.
ConcCalcClearDirty ==
    /\ pc = "calc38"
    /\ mDirty' = 0
    /\ pc' = "calc40"
    /\ calcRan' = TRUE
    /\ UNCHANGED <<params, mActive, coefs, history, faders, aBuffer, frame>>
    /\ FilterSteps

\* Line 40: omega, from mFrequency and mSampleRate as they are now.
ConcCalcOmega ==
    /\ pc = "calc40"
    /\ frame' = [frame EXCEPT !.frequency = mFrequency, !.sampleRate = mSampleRate]
    /\ pc' = "calc43"
    /\ UNCHANGED <<instance, aBuffer, calcRan>>
    /\ FilterSteps

\* Line 43: alpha, from mResonance as it is now.
ConcCalcAlpha ==
    /\ pc = "calc43"
    /\ frame' = [frame EXCEPT !.resonance = mResonance]
    /\ pc' = "calc46"
    /\ UNCHANGED <<instance, aBuffer, calcRan>>
    /\ FilterSteps

\* Lines 46-74: mActive and the coefficients, from omega and alpha.
ConcCalcSwitch ==
    /\ pc = "calc46"
    /\ LET c == CalcCoefs(mFilterType, frame.sampleRate, frame.frequency,
                          frame.resonance, coefs)
       IN  /\ mA0' = c[1]
           /\ mA1' = c[2]
           /\ mA2' = c[3]
           /\ mB1' = c[4]
           /\ mB2' = c[5]
    /\ mActive' = CalcActive(mFilterType)
    /\ pc' = "loops"
    /\ UNCHANGED <<params, mDirty, history, faders, aBuffer, calcRan, frame>>
    /\ FilterSteps

\* Lines 121-146: the sample loops; filter() returns.
ConcLoops ==
    /\ pc = "loops"
    /\ LET st == OuterLoop([buf |-> aBuffer, x1 |-> mX1, x2 |-> mX2, y1 |-> mY1, y2 |-> mY2],
                           coefs, frame.aSamples, Pitch(frame.aStereo), 0)
       IN  /\ aBuffer' = st.buf
           /\ mX1' = st.x1
           /\ mX2' = st.x2
           /\ mY1' = st.y1
           /\ mY2' = st.y2
    /\ pc' = "done"
    /\ UNCHANGED <<params, mActive, mDirty, coefs, faders, calcRan, frame>>
    /\ FilterSteps

\* The store "mDirty = 1" left out.
ConcSetDirty_Skip ==
    /\ setter.at = "call"
    /\ setter' = [setter EXCEPT !.at = "fader"]
    /\ UNCHANGED instance
    /\ SetterSteps

\* Lines 154, 159, 164: mDirty = 1.
ConcSetDirty ==
    /\ setter.at = "call"
    /\ mDirty' = 1
    /\ setter' = [setter EXCEPT !.at = "fader"]
    /\ UNCHANGED <<params, mActive, coefs, history, faders>>
    /\ SetterSteps

\* Lines 155, 160, 165: fader.mActive = 0.
ConcSetFaderOff ==
    /\ setter.at = "fader"
    /\ LET a == setter.aAttributeId
       IN  /\ mFrequencyFader' = IF a = FREQUENCY THEN Off(mFrequencyFader) ELSE mFrequencyFader
           /\ mSampleRateFader' = IF a = SAMPLERATE THEN Off(mSampleRateFader) ELSE mSampleRateFader
           /\ mResonanceFader' = IF a = RESONANCE THEN Off(mResonanceFader) ELSE mResonanceFader
    /\ setter' = [setter EXCEPT !.at = "field"]
    /\ UNCHANGED <<params, mActive, mDirty, coefs, history>>
    /\ SetterSteps

\* Lines 156, 161, 166: field = aValue; setFilterParameter returns.
ConcSetField ==
    /\ setter.at = "field"
    /\ LET a == setter.aAttributeId
       IN  /\ mFrequency' = IF a = FREQUENCY THEN setter.aValue ELSE mFrequency
           /\ mSampleRate' = IF a = SAMPLERATE THEN setter.aValue ELSE mSampleRate
           /\ mResonance' = IF a = RESONANCE THEN setter.aValue ELSE mResonance
    /\ setter' = [setter EXCEPT !.at = "done"]
    /\ UNCHANGED <<mFilterType, mActive, mDirty, coefs, history, faders>>
    /\ SetterSteps

NextConc ==
    \/ ConcEntry
    \/ ConcTestFader
    \/ ConcFaderDirty
    \/ ConcFaderGet
    \/ ConcTestDirty
    \/ ConcCalcClearDirty
    \/ ConcCalcOmega
    \/ ConcCalcAlpha
    \/ ConcCalcSwitch
    \/ ConcLoops
    \/ ConcSetDirty
    \/ ConcSetFaderOff
    \/ ConcSetField

SpecConc == InitConc /\ [][NextConc]_vars

(* ------------------------------------------------------------------ *)
(* Properties of SpecConc                                              *)
(* ------------------------------------------------------------------ *)

\* The coefficients derived from the fields with v in the field of a.
DerivedWith(a, v) ==
    CalcCoefs(mFilterType,
              IF a = SAMPLERATE THEN v ELSE mSampleRate,
              IF a = FREQUENCY THEN v ELSE mFrequency,
              IF a = RESONANCE THEN v ELSE mResonance,
              coefs)

BothReturned == pc = "done" /\ setter.at = "done"

\* The request's value is not lost: mDirty is set, or the coefficients are
\* the ones derived from it.
ValueTakesEffect ==
    mDirty = 1 \/ coefs = DerivedWith(setter.aAttributeId, setter.aValue)

\* C10 as claimed: however the statements of setFilterParameter(a, v) and of
\* filter() interleave, once both have returned mDirty is set or the
\* coefficients are the ones derived from v.
C10_NoLostUpdate_Claimed ==
    BothReturned => ValueTakesEffect

\* C10 amended: when the two calls do not overlap (one returns before the
\* other's first statement), once both have returned mDirty is set or the
\* coefficients are the ones derived from v.
C10_NoLostUpdate ==
    (BothReturned /\ ~call.overlapped) => ValueTakesEffect

\* C10 witness: setFilterParameter returned before filter() began, on an
\* instance that was clean, and filter() recomputed the coefficients from
\* the new value.
C10_Witness ==
    /\ BothReturned
    /\ ~call.overlapped
    /\ calcRan
    /\ mDirty = 0
    /\ Param(setter.aAttributeId) = setter.aValue
    /\ frame.frequency = mFrequency
    /\ \E v \in ParamValues(setter.aAttributeId) :
          coefs # DerivedWith(setter.aAttributeId, v)

====
